---- MODULE Spec2Model ----
(***************************************************************************)
(* A model of package table (src/table.go) and of its ANSI style provider  *)
(* (src/unnamed/part_001).                                                 *)
(*                                                                         *)
(* A Go string is a sequence of bytes (integers 0..255).  Column and row   *)
(* indexes of the program are 0-based and are kept 0-based in the inputs   *)
(* of the operations; TLA+ sequences are 1-based, so column c of the       *)
(* program is position c+1 of the sequences below.                         *)
(***************************************************************************)
EXTENDS Integers, Sequences, FiniteSets, TLC

VARIABLES
    columns,        \* t.columns
    headers,        \* t.headers
    rows,           \* t.rows
    widths,         \* t.widths
    maxWidths,      \* t.maxWidths
    precision,      \* t.precision
    padding,        \* t.padding
    format,         \* t.format
    formatHeader,   \* t.formatHeader
    formatRow,      \* t.formatRow      (map[int]FormatFunc)
    formatNotZero,  \* t.formatNotZero  (map[int]FormatFunc)
    sortBy,         \* t.sortBy
    panicked,       \* "" while the program runs, else the run-time panic that ended it
    lastOp,         \* the last call made on the table and its arguments
    before,         \* t.rows as they were when the last Sort was called
    writes,         \* the Write calls the sink accepted during the last Print
    printErr,       \* what the last Print returned: "nil", the sink's error, or "" (no return)
    history         \* outputs of the consecutive non-failing Prints since the last mutation

vars == <<columns, headers, rows, widths, maxWidths, precision, padding, format,
          formatHeader, formatRow, formatNotZero, sortBy, panicked, lastOp,
          before, writes, printErr, history>>

(***************************************************************************)
(* Strings                                                                 *)
(***************************************************************************)

\* String literals used by the program and by the inputs, as bytes.
strEmpty  == <<>>
strDots   == <<46, 46, 46>>              \* "..."
strNL     == <<10>>                      \* "\n"
strYes    == <<121, 101, 115>>           \* "yes"
strZero   == <<48>>                      \* "0"
strSemi   == <<59>>                      \* ";"
strCSI    == <<27, 91>>                  \* "\x1b["
strM      == <<109>>                     \* "m"
strReset  == <<27, 91, 48, 109>>         \* "\x1b[0m"
strK      == <<107>>                     \* "k"
strV      == <<118>>                     \* "v"
strA      == <<97>>                      \* "a"
strB      == <<98>>                      \* "b"
strAbc    == <<97, 98, 99>>              \* "abc"
strAbcdefg == <<97, 98, 99, 100, 101, 102, 103>>      \* "abcdefg"
strEabcd  == <<195, 169, 97, 98, 99, 100>>            \* "éabcd": 5 code points, 6 bytes
strTen    == <<49, 48>>                  \* "10"
strTwo    == <<50>>                      \* "2"
strList   == <<91, 49, 32, 50, 93>>      \* "[1 2]", fmt's %v of []int{1, 2}

\* F applied to the value of v: v is evaluated once, however often F uses it.
With(v, F(_)) == CHOOSE r \in {F(w) : w \in {v}} : TRUE

\* len([]rune(s)): the number of code points Go decodes from the bytes of s.
\* A two-byte sequence (lead 0xC2..0xDF, continuation 0x80..0xBF) is one code
\* point; a byte that starts no valid sequence decodes to U+FFFD and counts
\* as one.  The inputs below use one- and two-byte sequences only.
RECURSIVE RuneCount(_)
RuneCount(s) ==
    IF s = <<>> THEN 0
    ELSE IF Head(s) \in 194..223 /\ Len(s) >= 2 /\ s[2] \in 128..191
         THEN 1 + RuneCount(SubSeq(s, 3, Len(s)))
         ELSE 1 + RuneCount(Tail(s))

\* strings.Compare(a, b): byte-wise lexicographic comparison, -1, 0 or +1.
RECURSIVE Compare(_, _)
Compare(a, b) ==
    IF a = <<>> /\ b = <<>> THEN 0
    ELSE IF a = <<>> THEN -1
    ELSE IF b = <<>> THEN 1
    ELSE IF Head(a) < Head(b) THEN -1
    ELSE IF Head(a) > Head(b) THEN 1
    ELSE Compare(Tail(a), Tail(b))

\* strconv.Itoa / FormatInt / FormatUint in base 10.
RECURSIVE DigitsOf(_)
DigitsOf(n) ==
    IF n < 10 THEN <<48 + n>> ELSE Append(DigitsOf(n \div 10), 48 + (n % 10))

Itoa(n) == IF n < 0 THEN <<45>> \o DigitsOf(0 - n) ELSE DigitsOf(n)

RECURSIVE Pow10(_)
Pow10(p) == IF p = 0 THEN 1 ELSE 10 * Pow10(p - 1)

\* n in decimal, left-padded with "0" to p digits.
RECURSIVE ZeroPad(_, _)
ZeroPad(s, p) == IF Len(s) >= p THEN s ELSE ZeroPad(<<48>> \o s, p)

\* strconv.FormatFloat(v, 'f', p, bits) for p > 0 and v = e/8.  Eighths are
\* exactly representable in float32 and float64, so the exact value is
\* rounded to p fractional digits, ties to even.
FormatFloat(e, p) ==
    LET mag    == IF e < 0 THEN 0 - e ELSE e
        num    == mag * Pow10(p)
        q      == num \div 8
        r      == num % 8
        scaled == IF 2 * r > 8 \/ (2 * r = 8 /\ q % 2 = 1) THEN q + 1 ELSE q
        body   == DigitsOf(scaled \div Pow10(p)) \o <<46>>
                    \o ZeroPad(DigitsOf(scaled % Pow10(p)), p)
    IN IF e < 0 THEN <<45>> \o body ELSE body

(***************************************************************************)
(* Style provider (src/unnamed/part_001)                                   *)
(***************************************************************************)

\* CodeANSI attributes.
Red == 31
Green == 32
Blue == 34
Bold == 1
colorBgAdd == 10

\* Background(c)
Background(c) == c + colorBgAdd

\* A FormatFunc value: nil, or the closure Format(attr...) returns.
NilFunc == [set |-> FALSE, attr |-> <<>>]

\* Format(attr...): the closure keeps the attribute list.
Format(attr) == [set |-> TRUE, attr |-> attr]

\* buildList: the codes in decimal, joined by ";".
RECURSIVE buildList(_)
buildList(attr) ==
    IF attr = <<>> THEN <<>>
    ELSE Itoa(Head(attr)) \o (IF Len(attr) # 1 THEN strSemi ELSE <<>>)
            \o buildList(Tail(attr))

\* Calling the closure: fmt.Sprintf("\x1b[%sm%s\x1b[0m", a, s).
ApplyFormat(fn, s) == strCSI \o buildList(fn.attr) \o strM \o s \o strReset

(***************************************************************************)
(* Construction and configuration                                          *)
(***************************************************************************)

\* map[int]FormatFunc: reading a missing key gives nil.
MapGet(m, k) == IF k \in DOMAIN m THEN m[k] ELSE NilFunc

MapPut(m, k, v) == [x \in (DOMAIN m) \cup {k} |-> IF x = k THEN v ELSE m[x]]

\* "for _, col := range cols { if col >= 0 && col < t.columns { arr[col] = val } }"
SetCols(arr, cols, val) ==
    [i \in 1..columns |->
        IF \E n \in 1..Len(cols) : cols[n] = i - 1 THEN val ELSE arr[i]]

\* The record of a call: its name and, for Print, the writer handed in.
Op(name) == [op |-> name, failAt |-> 0, err |-> "nil"]

\* What every call that returns normally and is not Sort or Print leaves in
\* the observation variables.
Observe(op) ==
    /\ lastOp' = Op(op)
    /\ before' = <<>>
    /\ writes' = <<>>
    /\ printErr' = ""
    /\ history' = <<>>
    /\ panicked' = ""

\* New(headers...), with defaultHeaderFormat as DefaultHeaderFormat left it.
New(hs, defaultHeaderFormat) ==
    /\ columns = Len(hs)
    /\ headers = hs
    /\ widths = [i \in 1..Len(hs) |-> RuneCount(hs[i])]
    /\ maxWidths = [i \in 1..Len(hs) |-> 0]
    /\ precision = [i \in 1..Len(hs) |-> 0]
    /\ format = [i \in 1..Len(hs) |-> NilFunc]
    /\ formatRow = <<>>
    /\ formatNotZero = <<>>
    /\ rows = <<>>
    /\ padding = 2
    /\ formatHeader = defaultHeaderFormat
    /\ sortBy = <<>>
    /\ panicked = ""
    /\ lastOp = Op("New")
    /\ before = <<>>
    /\ writes = <<>>
    /\ printErr = ""
    /\ history = <<>>

FormatHeader(fn) ==
    /\ panicked = ""
    /\ formatHeader' = fn
    /\ Observe("FormatHeader")
    /\ UNCHANGED <<columns, headers, rows, widths, maxWidths, precision, padding,
                   format, formatRow, formatNotZero, sortBy>>

Padding(p) ==
    /\ panicked = ""
    /\ padding' = p
    /\ Observe("Padding")
    /\ UNCHANGED <<columns, headers, rows, widths, maxWidths, precision, format,
                   formatHeader, formatRow, formatNotZero, sortBy>>

MaxWidth(chars, cols) ==
    /\ panicked = ""
    /\ maxWidths' = SetCols(maxWidths, cols, chars)
    /\ Observe("MaxWidth")
    /\ UNCHANGED <<columns, headers, rows, widths, precision, padding, format,
                   formatHeader, formatRow, formatNotZero, sortBy>>

Precision(digits, cols) ==
    /\ panicked = ""
    /\ precision' = SetCols(precision, cols, digits)
    /\ Observe("Precision")
    /\ UNCHANGED <<columns, headers, rows, widths, maxWidths, padding, format,
                   formatHeader, formatRow, formatNotZero, sortBy>>

\* FormatRows(fn, rows...): row index -1 is resolved to the last row now.
RECURSIVE PutRows(_, _, _)
PutRows(m, fn, rs) ==
    IF rs = <<>> THEN m
    ELSE LET row == IF Head(rs) = -1 THEN Len(rows) - 1 ELSE Head(rs)
         IN PutRows(MapPut(m, row, fn), fn, Tail(rs))

FormatRows(fn, rs) ==
    /\ panicked = ""
    /\ formatRow' = PutRows(formatRow, fn, rs)
    /\ Observe("FormatRows")
    /\ UNCHANGED <<columns, headers, rows, widths, maxWidths, precision, padding,
                   format, formatHeader, formatNotZero, sortBy>>

FormatCols(fn, cols) ==
    /\ panicked = ""
    /\ format' = SetCols(format, cols, fn)
    /\ Observe("FormatCols")
    /\ UNCHANGED <<columns, headers, rows, widths, maxWidths, precision, padding,
                   formatHeader, formatRow, formatNotZero, sortBy>>

RECURSIVE PutCols(_, _, _)
PutCols(m, fn, cols) ==
    IF cols = <<>> THEN m
    ELSE IF Head(cols) >= 0 /\ Head(cols) < columns
         THEN PutCols(MapPut(m, Head(cols), fn), fn, Tail(cols))
         ELSE PutCols(m, fn, Tail(cols))

FormatNotZero(fn, cols) ==
    /\ panicked = ""
    /\ formatNotZero' = PutCols(formatNotZero, fn, cols)
    /\ Observe("FormatNotZero")
    /\ UNCHANGED <<columns, headers, rows, widths, maxWidths, precision, padding,
                   format, formatHeader, formatRow, sortBy>>

(***************************************************************************)
(* Row                                                                     *)
(***************************************************************************)

\* A value handed to Row: its dynamic type (kind) and its content.  n is the
\* number for the integer kinds, the value in eighths for the float kinds,
\* 1/0 for bool true/false and for a non-nil/nil pointer; s is the text of a
\* string, the pointee of a non-nil pointer, or fmt's %v text of any other
\* type.
Val(kind, n, s) == [kind |-> kind, n |-> n, s |-> s]

\* The type switch of Row: the text, or a panic (nil pointer dereference).
Stringify(v, p) ==
    CASE v.kind \in {"int32", "int64", "uint64", "int", "uint32"} ->
            [panic |-> FALSE, s |-> Itoa(v.n)]
      [] v.kind \in {"float32", "float64"} ->
            [panic |-> FALSE, s |-> FormatFloat(v.n, p)]
      [] v.kind \in {"bytesPtr", "stringPtr"} ->
            IF v.n = 0 THEN [panic |-> TRUE, s |-> <<>>]
            ELSE [panic |-> FALSE, s |-> v.s]
      [] v.kind = "nil" ->
            [panic |-> FALSE, s |-> <<>>]
      [] v.kind = "bool" ->
            [panic |-> FALSE, s |-> IF v.n = 1 THEN strYes ELSE strEmpty]
      [] v.kind = "string" ->
            [panic |-> FALSE, s |-> v.s]
      [] OTHER ->
            [panic |-> FALSE, s |-> v.s]

\* "p := t.precision[i]; if p == 0 { p = 2 }"
PrecisionOf(i) == IF precision[i] = 0 THEN 2 ELSE precision[i]

\* "if len(values) > t.columns { values = values[:t.columns] }"
Truncated(values) ==
    IF Len(values) > columns THEN SubSeq(values, 1, columns) ELSE values

\* The position of the first value whose conversion panics, 0 if none does.
FirstPanic(vals) ==
    LET bad == {i \in 1..Len(vals) : Stringify(vals[i], PrecisionOf(i)).panic}
    IN IF bad = {} THEN 0 ELSE CHOOSE i \in bad : \A j \in bad : i <= j

\* The width of column i after the loop of Row has handled value i.
RowWidth(i, s) == IF RuneCount(s) > widths[i] THEN RuneCount(s) ELSE widths[i]

\* Row(values...).  The loop updates t.widths value by value; a panic leaves
\* the widths of the values before it updated and appends nothing.
Row(values) ==
    LET vals == Truncated(values)
        fp   == FirstPanic(vals)
        row  == [i \in 1..Len(vals) |-> Stringify(vals[i], PrecisionOf(i)).s]
    IN /\ panicked = ""
       /\ widths' = [i \in 1..columns |->
                        IF i <= Len(vals) /\ (fp = 0 \/ i < fp)
                        THEN RowWidth(i, row[i]) ELSE widths[i]]
       /\ rows' = IF fp = 0 THEN Append(rows, row) ELSE rows
       /\ panicked' = IF fp = 0 THEN "" ELSE "nil pointer dereference"
       /\ lastOp' = Op("Row")
       /\ before' = <<>>
       /\ writes' = <<>>
       /\ printErr' = ""
       /\ history' = <<>>
       /\ UNCHANGED <<columns, headers, maxWidths, precision, padding, format,
                      formatHeader, formatRow, formatNotZero, sortBy>>

(***************************************************************************)
(* Sort                                                                    *)
(*                                                                         *)
(* Table.Sort hands the table to sort.Sort of Go's standard library, which *)
(* drives Len, Less and Swap.  sort.Sort is pdqsort: insertion sort for a  *)
(* range of at most maxInsertion elements; for a longer range it chooses a *)
(* pivot, tries a partial insertion sort if the range looks sorted,        *)
(* partitions around the pivot and sorts the two sides.  Tables here have  *)
(* at most maxInsertion + 1 rows, so both sides of the one partition are   *)
(* sorted by insertion, and the parts of pdqsort that serve longer ranges  *)
(* (ninther pivots, reversal, pattern breaking, heap sort) never run.      *)
(***************************************************************************)

maxInsertion == 12

\* Less(i, j) on rows rs with t.sortBy = keys: "true", "false", or "panic"
\* when t.rows[i][k] or t.rows[j][k] indexes past the end of a row.  The
\* loop stops at the first key whose cells differ.
RECURSIVE LessLoop(_, _, _, _, _)
LessLoop(rs, keys, i, j, n) ==
    IF n > Len(keys) THEN "false"
    ELSE LET k == keys[n]
         IN IF k < 0 \/ k >= Len(rs[i + 1]) \/ k >= Len(rs[j + 1]) THEN "panic"
            ELSE LET c == Compare(rs[i + 1][k + 1], rs[j + 1][k + 1])
                 IN IF c # 0 THEN (IF c < 0 THEN "true" ELSE "false")
                    ELSE LessLoop(rs, keys, i, j, n + 1)

\* A comparator with its operands exchanged; the order C3 states does not
\* hold of a sort that uses it.
Less_Exchanged(rs, keys, i, j) == LessLoop(rs, keys, j, i, 1)

Less(rs, keys, i, j) == LessLoop(rs, keys, i, j, 1)

\* Swap(i, j)
Swap(rs, i, j) == [rs EXCEPT ![i + 1] = rs[j + 1], ![j + 1] = rs[i + 1]]

\* The state of a sort in progress: the rows, and whether Less has panicked.
SortState(rs, panic) == [rows |-> rs, panic |-> panic]

\* "for j := i; j > a && data.Less(j, j-1); j-- { data.Swap(j, j-1) }"
RECURSIVE InsertOne(_, _, _, _)
InsertOne(st, keys, a, j) ==
    IF st.panic \/ j <= a THEN st
    ELSE With(Less(st.rows, keys, j, j - 1), LAMBDA l :
            IF l = "panic" THEN SortState(st.rows, TRUE)
            ELSE IF l = "true"
                 THEN InsertOne(SortState(Swap(st.rows, j, j - 1), FALSE), keys, a, j - 1)
                 ELSE st)

\* insertionSort(data, a, b), from i on.
RECURSIVE InsertFrom(_, _, _, _, _)
InsertFrom(st, keys, a, b, i) ==
    IF st.panic \/ i >= b THEN st
    ELSE InsertFrom(InsertOne(st, keys, a, i), keys, a, b, i + 1)

insertionSort(st, keys, a, b) == InsertFrom(st, keys, a, b, a + 1)

\* order2(data, a, b, &swaps): the two indexes in order, the swap counted.
order2(rs, keys, a, b, swaps) ==
    With(Less(rs, keys, b, a), LAMBDA l :
        IF l = "panic" THEN [x |-> a, y |-> b, swaps |-> swaps, panic |-> TRUE]
        ELSE IF l = "true" THEN [x |-> b, y |-> a, swaps |-> swaps + 1, panic |-> FALSE]
        ELSE [x |-> a, y |-> b, swaps |-> swaps, panic |-> FALSE])

\* median(data, a, b, c, &swaps): the index of the median of three rows.
median(rs, keys, a, b, c) ==
    With(order2(rs, keys, a, b, 0), LAMBDA o1 :
    With(order2(rs, keys, o1.y, c, o1.swaps), LAMBDA o2 :
    With(order2(rs, keys, o1.x, o2.x, o2.swaps), LAMBDA o3 :
        IF o1.panic \/ o2.panic \/ o3.panic
        THEN [j |-> b, swaps |-> 0, panic |-> TRUE]
        ELSE [j |-> o3.y, swaps |-> o3.swaps, panic |-> FALSE])))

\* choosePivot(data, a, b) for 8 <= b-a < 50: the median of the rows at the
\* quarter points; the hint is "increasing" when no swap was counted.
choosePivot(rs, keys, a, b) ==
    With(median(rs, keys, a + ((b - a) \div 4) * 1, a + ((b - a) \div 4) * 2,
                a + ((b - a) \div 4) * 3), LAMBDA m :
        [pivot |-> m.j, increasing |-> (m.swaps = 0), panic |-> m.panic])

\* partialInsertionSort(data, a, b) for b-a < 50: "sorted" when no adjacent
\* pair is out of order, else "unsorted" with nothing moved.
RECURSIVE partialInsertionSort(_, _, _, _)
partialInsertionSort(rs, keys, i, b) ==
    IF i >= b THEN "sorted"
    ELSE With(Less(rs, keys, i, i - 1), LAMBDA l :
            IF l = "panic" THEN "panic"
            ELSE IF l = "true" THEN "unsorted"
            ELSE partialInsertionSort(rs, keys, i + 1, b))

\* "for i <= j && data.Less(i, a) { i++ }"
RECURSIVE ScanUp(_, _, _, _, _)
ScanUp(rs, keys, i, j, a) ==
    IF i > j THEN [at |-> i, panic |-> FALSE]
    ELSE With(Less(rs, keys, i, a), LAMBDA l :
            IF l = "panic" THEN [at |-> i, panic |-> TRUE]
            ELSE IF l = "true" THEN ScanUp(rs, keys, i + 1, j, a)
            ELSE [at |-> i, panic |-> FALSE])

\* "for i <= j && !data.Less(j, a) { j-- }"
RECURSIVE ScanDown(_, _, _, _, _)
ScanDown(rs, keys, i, j, a) ==
    IF i > j THEN [at |-> j, panic |-> FALSE]
    ELSE With(Less(rs, keys, j, a), LAMBDA l :
            IF l = "panic" THEN [at |-> j, panic |-> TRUE]
            ELSE IF l = "false" THEN ScanDown(rs, keys, i, j - 1, a)
            ELSE [at |-> j, panic |-> FALSE])

\* The loop of partition once the pivot is at a: scan, swap, repeat; then
\* put the pivot at j.
RECURSIVE PartitionLoop(_, _, _, _, _)
PartitionLoop(rs, keys, i, j, a) ==
    With(ScanUp(rs, keys, i, j, a), LAMBDA u :
    With(ScanDown(rs, keys, u.at, j, a), LAMBDA d :
        IF u.panic \/ d.panic THEN [rows |-> rs, mid |-> a, panic |-> TRUE]
        ELSE IF u.at > d.at
             THEN [rows |-> Swap(rs, d.at, a), mid |-> d.at, panic |-> FALSE]
             ELSE PartitionLoop(Swap(rs, u.at, d.at), keys, u.at + 1, d.at - 1, a)))

\* partition(data, a, b, pivot)
partition(rs, keys, a, b, pivot) ==
    PartitionLoop(Swap(rs, a, pivot), keys, a + 1, b - 1, a)

\* The end of an iteration of pdqsort: the shorter side of the partition at
\* mid is sorted first, then the other; each has at most maxInsertion rows.
SortSides(rs, keys, a, b, mid) ==
    IF mid - a < b - mid
    THEN With(insertionSort(SortState(rs, FALSE), keys, a, mid), LAMBDA left :
            insertionSort(left, keys, mid + 1, b))
    ELSE With(insertionSort(SortState(rs, FALSE), keys, mid + 1, b), LAMBDA right :
            insertionSort(right, keys, a, mid))

\* pdqsort(data, a, b, limit) for b-a <= maxInsertion + 1.
pdqsort(rs, keys, a, b) ==
    IF b - a <= maxInsertion THEN insertionSort(SortState(rs, FALSE), keys, a, b)
    ELSE
    With(choosePivot(rs, keys, a, b), LAMBDA cp :
    With(IF cp.panic THEN "panic"
         ELSE IF cp.increasing THEN partialInsertionSort(rs, keys, a + 1, b)
         ELSE "unsorted", LAMBDA ps :
        IF ps = "panic" THEN SortState(rs, TRUE)
        ELSE IF ps = "sorted" THEN SortState(rs, FALSE)
        ELSE With(partition(rs, keys, a, b, cp.pivot), LAMBDA pt :
                IF pt.panic THEN SortState(pt.rows, TRUE)
                ELSE SortSides(pt.rows, keys, a, b, pt.mid))))

\* Sort(cols...): "t.sortBy = cols; sort.Sort(t)"
Sort(cols) ==
    \E st \in {pdqsort(rows, cols, 0, Len(rows))} :
       /\ panicked = ""
       /\ sortBy' = cols
       /\ rows' = st.rows
       /\ panicked' = IF st.panic THEN "index out of range" ELSE ""
       /\ lastOp' = Op("Sort")
       /\ before' = rows
       /\ writes' = <<>>
       /\ printErr' = ""
       /\ history' = <<>>
       /\ UNCHANGED <<columns, headers, widths, maxWidths, precision, padding,
                      format, formatHeader, formatRow, formatNotZero>>

(***************************************************************************)
(* Print                                                                   *)
(***************************************************************************)

\* appendWhitespace(b, count): count spaces, none when count <= 0.
RECURSIVE appendWhitespace(_, _)
appendWhitespace(b, count) ==
    IF count <= 0 THEN b ELSE appendWhitespace(Append(b, 32), count - 1)

\* The first loop of Print: t.widths[i] is lowered to a positive
\* t.maxWidths[i] that it exceeds.
ClampedWidths ==
    [i \in 1..columns |->
        IF maxWidths[i] > 0 /\ widths[i] > maxWidths[i]
        THEN maxWidths[i] ELSE widths[i]]

\* "if t.maxWidths[i] > 0 && len([]rune(h)) > t.maxWidths[i]"
MustTruncate(text, i) == maxWidths[i] > 0 /\ RuneCount(text) > maxWidths[i]

\* "h = h[:t.maxWidths[i]-3] + "..."": a slice of the bytes of h; a negative
\* bound is a run-time panic.
TruncatePanics(text, i) == MustTruncate(text, i) /\ maxWidths[i] - 3 < 0

Truncate(text, i) ==
    IF MustTruncate(text, i) /\ ~TruncatePanics(text, i)
    THEN SubSeq(text, 1, maxWidths[i] - 3) \o strDots
    ELSE text

\* A switch that tests the row style before the non-zero style; the
\* precedence C8 states does not hold of it.
PickStyle_RowFirst(r, j, i) ==
    CASE MapGet(formatRow, j).set                    -> MapGet(formatRow, j)
      [] MapGet(formatNotZero, i).set /\ r # strZero -> MapGet(formatNotZero, i)
      [] format[i + 1].set                           -> format[i + 1]
      [] OTHER                                       -> NilFunc

\* The switch of Print that picks the style of the value r at row j, column i
\* (both 0-based); NilFunc when no case applies.
PickStyle(r, j, i) ==
    CASE MapGet(formatNotZero, i).set /\ r # strZero -> MapGet(formatNotZero, i)
      [] MapGet(formatRow, j).set                    -> MapGet(formatRow, j)
      [] format[i + 1].set                           -> format[i + 1]
      [] OTHER                                       -> NilFunc

\* One pass of a loop body of Print up to its Write call: the cell at row j
\* (-1 for the header line), column i (0-based), from text, styled by fn.
\* ws are the widths as the first loop left them.
Cell(kind, j, i, text, fn, ws) ==
    LET t2 == Truncate(text, i + 1)
        p  == ws[i + 1] + padding - RuneCount(t2)
        st == IF fn.set THEN ApplyFormat(fn, t2) ELSE t2
    IN [kind  |-> kind, row |-> j, col |-> i,
        text  |-> t2,
        style |-> fn,
        bytes |-> IF i # columns - 1 THEN appendWhitespace(st, p) ELSE st,
        panic |-> TruncatePanics(text, i + 1)]

\* The Write of "\n" that ends a line.
NewLine(j) ==
    [kind |-> "newline", row |-> j, col |-> -1, text |-> strNL, style |-> NilFunc,
     bytes |-> strNL, panic |-> FALSE]

HeaderLine(ws) ==
    [i \in 1..columns |-> Cell("header", -1, i - 1, headers[i], formatHeader, ws)]
        \o <<NewLine(-1)>>

RowLine(j, ws) ==
    [i \in 1..Len(rows[j + 1]) |->
        LET r == Truncate(rows[j + 1][i], i)
        IN Cell("value", j, i - 1, rows[j + 1][i], PickStyle(r, j, i - 1), ws)]
        \o <<NewLine(j)>>

RECURSIVE RowLines(_, _)
RowLines(j, ws) ==
    IF j >= Len(rows) THEN <<>> ELSE RowLine(j, ws) \o RowLines(j + 1, ws)

\* A Print that pads the header line by the widths as they were before its
\* first loop; C2 does not hold of it.
Planned_StaleHeader(ws) == HeaderLine(widths) \o RowLines(0, ws)

\* Every Write call Print makes when nothing stops it, in order.
Planned(ws) == HeaderLine(ws) \o RowLines(0, ws)

\* The position of the first cell whose truncation panics, 0 if none does.
FirstCellPanic(plan) ==
    LET bad == {n \in 1..Len(plan) : plan[n].panic}
    IN IF bad = {} THEN 0 ELSE CHOOSE n \in bad : \A m \in bad : n <= m

\* The Write calls Print reaches: those before the first panicking cell.
Attempted(plan) ==
    IF FirstCellPanic(plan) = 0 THEN plan
    ELSE SubSeq(plan, 1, FirstCellPanic(plan) - 1)

\* "if _, err := out.Write(buf); err != nil { return err }": the sink fails
\* its failAt-th Write call (never when failAt = 0), and Print stops there.
SinkFails(sink, plan) == sink.failAt >= 1 /\ sink.failAt <= Len(Attempted(plan))

\* A Print that goes on writing after a Write has failed; C9 does not hold
\* of it.
Accepted_KeepsWriting(sink, plan) == Attempted(plan)

\* The Write calls the sink accepted.
Accepted(sink, plan) ==
    IF SinkFails(sink, plan) THEN SubSeq(plan, 1, sink.failAt - 1)
    ELSE Attempted(plan)

\* What Print returns: the sink's error, nil, or nothing when it panics.
Returned(sink, plan) ==
    IF SinkFails(sink, plan) THEN sink.err
    ELSE IF FirstCellPanic(plan) # 0 THEN ""
    ELSE "nil"

\* The bytes the sink holds after the Write calls ws.
RECURSIVE Bytes(_)
Bytes(ws) == IF ws = <<>> THEN <<>> ELSE Head(ws).bytes \o Bytes(Tail(ws))

\* Print(out).  sink describes the writer handed in.
TablePrint(sink) ==
    LET ws   == ClampedWidths
        plan == Planned(ws)
        ret  == Returned(sink, plan)
        acc  == Accepted(sink, plan)
    IN /\ panicked = ""
       /\ widths' = ws
       /\ writes' = acc
       /\ printErr' = ret
       /\ panicked' = IF ret = "" THEN "slice bounds out of range" ELSE ""
       /\ history' = IF ret # "nil" THEN <<>>
                     ELSE IF history = <<>> THEN <<Bytes(acc)>>
                     ELSE <<history[Len(history)], Bytes(acc)>>
       /\ lastOp' = [op |-> "Print", failAt |-> sink.failAt, err |-> sink.err]
       /\ before' = <<>>
       /\ UNCHANGED <<columns, headers, rows, maxWidths, precision, padding, format,
                      formatHeader, formatRow, formatNotZero, sortBy>>

(***************************************************************************)
(* Specifications                                                          *)
(***************************************************************************)

MaxRows == 2
MaxFailAt == 2

Str(s) == Val("string", 0, s)

\* The headers handed to New.
Headers == {<<strK, strV>>, <<strEabcd, strV>>}

\* Rows of strings: shorter than the table, as wide, and wider.
RowInputs ==
    {<<Str(strB)>>,
     <<Str(strA), Str(strB)>>, <<Str(strAbcdefg), Str(strA)>>,
     <<Str(strA), Str(strA), Str(strB)>>}

MaxWidthInputs == {0, 2, 4}
ColInputs == {<<0>>, <<2>>}
PaddingInputs == {1}
SortInputs == {<<0>>, <<1>>}

\* Writers: one that never fails, and ones that fail their k-th Write.
NeverFails == [failAt |-> 0, err |-> "nil"]

Sinks ==
    {NeverFails} \cup {[failAt |-> k, err |-> e] : k \in 1..MaxFailAt, e \in {"EIO", "EPIPE"}}

\* The inputs a caller that stops at max rows may hand to Row.
Upto(max, inputs) == IF Len(rows) < max THEN inputs ELSE {}

Init == \E hs \in Headers : New(hs, NilFunc)

\* Widths, truncation, sorting and printing to writers that may fail.
Next ==
    \/ \E chars \in MaxWidthInputs, cols \in ColInputs : MaxWidth(chars, cols)
    \/ \E p \in PaddingInputs : Padding(p)
    \/ \E values \in Upto(MaxRows, RowInputs) : Row(values)
    \/ \E cols \in SortInputs : Sort(cols)
    \/ \E sink \in Sinks : TablePrint(sink)

Spec == Init /\ [][Next]_vars

(***************************************************************************)
(* Properties of widths, truncation, alignment and the sink (under Spec)   *)
(***************************************************************************)

\* The code-point lengths of the header and of the stored values of column i
\* (1-based).
ColumnLengths(i) ==
    {RuneCount(headers[i])}
        \cup {RuneCount(rows[j][i]) : j \in {n \in 1..Len(rows) : i <= Len(rows[n])}}

SetMax(S) == CHOOSE x \in S : \A y \in S : y <= x

\* C1: in every reachable state, for every column i, widths[i] is at least
\* the code-point length of header i and of every stored value at column i;
\* no operation, Print included, lowers the tracked width below them.
C1_TrackedWidthNeverLowered ==
    \A i \in 1..columns : widths[i] >= SetMax(ColumnLengths(i))

\* C2: two consecutive Prints with no mutation between them and a sink that
\* does not fail write the same bytes.
C2_RenderIdempotent ==
    Len(history) = 2 => history[1] = history[2]

\* C2 witness: two consecutive Prints of a table with rows, one of whose
\* columns exceeds its cap, so that the first Print lowered a width.
C2_Witness ==
    /\ Len(history) = 2
    /\ rows # <<>>
    /\ \E i \in 1..columns : maxWidths[i] > 0 /\ SetMax(ColumnLengths(i)) > maxWidths[i]

\* The first n code points of s, as Go decodes them.
RECURSIVE FirstRunes(_, _)
FirstRunes(s, n) ==
    IF n <= 0 \/ s = <<>> THEN <<>>
    ELSE IF Head(s) \in 194..223 /\ Len(s) >= 2 /\ s[2] \in 128..191
         THEN <<s[1], s[2]>> \o FirstRunes(SubSeq(s, 3, Len(s)), n - 1)
         ELSE <<Head(s)>> \o FirstRunes(Tail(s), n - 1)

\* The text a written cell was rendered from.
SourceText(w) ==
    IF w.kind = "header" THEN headers[w.col + 1] ELSE rows[w.row + 1][w.col + 1]

\* C5: Print never fails on truncation, and a header or value longer (in
\* code points) than its column's positive max width is rendered, before
\* styling, as its first (max-3) code points followed by "...", max code
\* points in all.
C5_TruncationCorrect ==
    lastOp.op = "Print" =>
        /\ panicked = ""
        /\ \A n \in 1..Len(writes) :
              LET w   == writes[n]
                  cap == maxWidths[w.col + 1]
              IN (w.kind # "newline" /\ cap > 0 /\ RuneCount(SourceText(w)) > cap) =>
                    /\ w.text = FirstRunes(SourceText(w), cap - 3) \o strDots
                    /\ RuneCount(w.text) = cap

\* The width a column is rendered at: the longest of its header and stored
\* values, capped by the column's max width when one is set.
EffectiveWidth(i) ==
    IF maxWidths[i] > 0 /\ SetMax(ColumnLengths(i)) > maxWidths[i]
    THEN maxWidths[i] ELSE SetMax(ColumnLengths(i))

\* The code points a written cell occupies on its line: its text before
\* styling and the spaces appended to it.
Occupied(w) ==
    RuneCount(w.text) + Len(w.bytes)
        - Len(IF w.style.set THEN ApplyFormat(w.style, w.text) ELSE w.text)

\* C7: in the output of a Print, every header and value cell of a column
\* other than the last occupies exactly effectiveWidth + padding code points,
\* and a cell of the last column is not padded.
C7_ColumnAlignment ==
    (lastOp.op = "Print" /\ printErr = "nil") =>
        \A n \in 1..Len(writes) :
            LET w == writes[n]
            IN w.kind # "newline" =>
                  IF w.col # columns - 1
                  THEN Occupied(w) = EffectiveWidth(w.col + 1) + padding
                  ELSE Occupied(w) = RuneCount(w.text)

\* The Write calls a Print that nothing stops makes: one per header, one per
\* stored value, one newline per line.
RECURSIVE CellCount(_)
CellCount(rs) == IF rs = <<>> THEN 0 ELSE Len(Head(rs)) + 1 + CellCount(Tail(rs))

TotalWrites == columns + 1 + CellCount(rows)

\* C9: Print returns nil or the sink's own error, nothing else; when a Write
\* fails, Print returns that error, the sink holds exactly the writes before
\* the failed one and none after it; when no Write fails and Print returns,
\* it returns nil with every write made.
C9_SinkFailure ==
    lastOp.op = "Print" =>
        /\ printErr \in {"nil", "", lastOp.err}
        /\ (printErr # "nil" /\ printErr # "") =>
              /\ lastOp.failAt >= 1
              /\ Len(writes) = lastOp.failAt - 1
        /\ printErr = "nil" =>
              /\ lastOp.failAt = 0 \/ lastOp.failAt > TotalWrites
              /\ Len(writes) = TotalWrites
        /\ (lastOp.failAt >= 1 /\ lastOp.failAt <= Len(writes) + 1 /\ panicked = "") =>
              printErr = lastOp.err
        /\ \A n \in 1..Len(writes) : n <= columns => writes[n].kind = "header"

\* C9 witness: a Print of a table with a row whose sink failed its second
\* Write: the error is returned and one write is kept.
C9_Witness ==
    /\ lastOp.op = "Print"
    /\ rows # <<>>
    /\ lastOp.failAt = 2
    /\ printErr = "EPIPE"
    /\ Len(writes) = 1

(***************************************************************************)
(* Sorting (under SpecSort and SpecLong)                                   *)
(***************************************************************************)

MaxSortRows == 3
MaxVariedKeys == 5

\* Rows whose first cells compare textually ("10" before "2"), rows that tie
\* on the first cell, and a row given fewer values than the table has columns.
SortRowInputs ==
    {<<Str(strTen), Str(strA)>>, <<Str(strTwo), Str(strB)>>,
     <<Str(strTwo), Str(strA)>>, <<Str(strA)>>}

\* Column lists: empty, one key, two keys in both orders, and a column the
\* table does not have.
SortColInputs == {<<>>, <<0>>, <<1>>, <<0, 1>>, <<1, 0>>, <<2>>}

NextSort ==
    \/ \E values \in Upto(MaxSortRows, SortRowInputs) : Row(values)
    \/ \E cols \in SortColInputs : Sort(cols)

SpecSort == Init /\ [][NextSort]_vars

\* Tables long enough for sort.Sort to leave insertion sort: every row is
\* given a key and the number of rows before it, so rows with equal keys can
\* be told apart, and the table is sorted once it has more than maxInsertion
\* rows.  The keys of the first MaxVariedKeys rows vary, the later rows all
\* have the key "a".
LongRowInputs ==
    {<<Str(key), Val("int", Len(rows), <<>>)>> :
        key \in (IF Len(rows) < MaxVariedKeys THEN {strA, strB} ELSE {strA})}

NextLong ==
    \/ \E values \in Upto(maxInsertion + 1, LongRowInputs) : Row(values)
    \/ \E cols \in (IF Len(rows) > maxInsertion THEN {<<>>, <<0>>} ELSE {}) : Sort(cols)

SpecLong == Init /\ [][NextLong]_vars

\* The cell of row r at column k (0-based), boxed; empty when r is shorter.
CellAt(r, k) == IF k >= 0 /\ k < Len(r) THEN <<r[k + 1]>> ELSE <<>>

\* r1 precedes r2 under the comparator of the column list keys: at the first
\* key where the cells differ, the cell of r1 is byte-wise smaller.
RowLess(r1, r2, keys) ==
    \E n \in 1..Len(keys) :
        /\ \A m \in 1..(n - 1) :
              /\ CellAt(r1, keys[m]) # <<>>
              /\ CellAt(r1, keys[m]) = CellAt(r2, keys[m])
        /\ CellAt(r1, keys[n]) # <<>>
        /\ CellAt(r2, keys[n]) # <<>>
        /\ Compare(CellAt(r1, keys[n])[1], CellAt(r2, keys[n])[1]) < 0

Occurrences(x, seq) == Cardinality({n \in 1..Len(seq) : seq[n] = x})

IsPermutation(s1, s2) ==
    /\ Len(s1) = Len(s2)
    /\ \A n \in 1..Len(s1) : Occurrences(s1[n], s1) = Occurrences(s1[n], s2)

\* C3: after a Sort with a non-empty column list has returned, the rows are
\* a permutation of the rows before the call, and no row precedes an earlier
\* row under the lexicographic byte-wise comparator over the listed columns.
C3_SortedPermutation ==
    (lastOp.op = "Sort" /\ panicked = "" /\ sortBy # <<>>) =>
        /\ IsPermutation(before, rows)
        /\ \A i \in 1..Len(rows) : \A j \in (i + 1)..Len(rows) :
              ~RowLess(rows[j], rows[i], sortBy)

\* C3 witness: a Sort by columns 0 then 1 that reordered three rows, put
\* "10" before "2", and ordered two rows that tie on column 0 by column 1.
C3_Witness ==
    /\ lastOp.op = "Sort"
    /\ panicked = ""
    /\ sortBy = <<0, 1>>
    /\ rows # before
    /\ rows = <<<<strTen, strA>>, <<strTwo, strA>>, <<strTwo, strB>>>>

\* r1 and r2 have equal cells in every column of keys.
SameKeys(r1, r2, keys) ==
    \A n \in 1..Len(keys) : CellAt(r1, keys[n]) = CellAt(r2, keys[n])

\* The rows of seq that agree with r on keys, in their order in seq.
KeyClass(seq, r, keys) ==
    LET InClass(x) == SameKeys(x, r, keys) IN SelectSeq(seq, InClass)

\* C4: Sort is stable: rows whose cells are equal on every listed column keep
\* their relative order, and a Sort with an empty column list keeps the order
\* of all rows.
C4_SortStable ==
    (lastOp.op = "Sort" /\ panicked = "") =>
        \A n \in 1..Len(before) :
            KeyClass(rows, before[n], sortBy) = KeyClass(before, before[n], sortBy)

\* C10: a Sort whose column indexes all lie in [0, columns) never reads past
\* the end of a stored row, on any table Row can build.
C10_SortInRangeIsSafe ==
    (lastOp.op = "Sort" /\ \A n \in 1..Len(sortBy) : sortBy[n] \in 0..(columns - 1)) =>
        panicked = ""

(***************************************************************************)
(* Styling (under SpecStyle)                                               *)
(***************************************************************************)

styleNotZero == Format(<<Red>>)
styleRow     == Format(<<Bold>>)
styleCol     == Format(<<Green, Background(Blue)>>)

\* Rows with a "0" in either column.
StyleRowInputs == {<<Str(strZero), Str(strA)>>, <<Str(strA), Str(strZero)>>}

NextStyle ==
    \/ \E cols \in {<<0>>, <<1>>} : FormatCols(styleCol, cols)
    \/ \E rs \in {<<0>>, <<-1>>} : FormatRows(styleRow, rs)
    \/ \E cols \in {<<0>>, <<0, 1>>, <<2>>} : FormatNotZero(styleNotZero, cols)
    \/ \E fn \in {styleRow} : FormatHeader(fn)
    \/ \E values \in Upto(MaxRows, StyleRowInputs) : Row(values)
    \/ \E sink \in {NeverFails} : TablePrint(sink)

SpecStyle == Init /\ [][NextStyle]_vars

\* The style the precedence rule gives the value cell w: the column's
\* non-zero style when configured and the text is not "0", else the row's
\* style when configured, else the column's style when configured, else none.
ExpectedStyle(w) ==
    IF MapGet(formatNotZero, w.col).set /\ w.text # strZero
    THEN MapGet(formatNotZero, w.col)
    ELSE IF MapGet(formatRow, w.row).set THEN MapGet(formatRow, w.row)
    ELSE IF format[w.col + 1].set THEN format[w.col + 1]
    ELSE NilFunc

\* The bytes of a cell whose text is wrapped by exactly the style fn, or by
\* none when fn is nil, followed by pad spaces.
StyledOnce(text, fn, pad) ==
    (IF fn.set THEN strCSI \o buildList(fn.attr) \o strM \o text \o strReset ELSE text)
        \o [n \in 1..pad |-> 32]

\* C8: every value cell Print writes is its text wrapped by exactly the one
\* style the precedence rule selects (non-zero style, then row style, then
\* column style), or unstyled when none applies, followed only by padding.
C8_StylePrecedence ==
    lastOp.op = "Print" =>
        \A n \in 1..Len(writes) :
            writes[n].kind = "value" =>
                \E pad \in 0..Len(writes[n].bytes) :
                    writes[n].bytes =
                        StyledOnce(writes[n].text, ExpectedStyle(writes[n]), pad)

\* C8 witness: a Print that wrote a cell other than "0" whose column has a
\* non-zero style and a column style and whose row has a row style, and a
\* "0" cell in a column with a non-zero style and a row with a row style.
C8_Witness ==
    /\ lastOp.op = "Print"
    /\ \E n \in 1..Len(writes) :
          /\ writes[n].kind = "value"
          /\ writes[n].text # strZero
          /\ MapGet(formatNotZero, writes[n].col).set
          /\ MapGet(formatRow, writes[n].row).set
          /\ format[writes[n].col + 1].set
          /\ writes[n].style = styleNotZero
    /\ \E n \in 1..Len(writes) :
          /\ writes[n].kind = "value"
          /\ writes[n].text = strZero
          /\ MapGet(formatNotZero, writes[n].col).set
          /\ MapGet(formatRow, writes[n].row).set
          /\ writes[n].style = styleRow

(***************************************************************************)
(* Row and the values it accepts (under SpecRow)                           *)
(***************************************************************************)

\* One value of every case of Row's type switch, pointers nil and not.
Values ==
    {Val("int", 10, <<>>), Val("int32", -1, <<>>), Val("int64", 2, <<>>),
     Val("uint32", 7, <<>>), Val("uint64", 0, <<>>),
     Val("float64", 1, <<>>), Val("float32", 20, <<>>),
     Val("bytesPtr", 1, strAbc), Val("bytesPtr", 0, <<>>),
     Val("stringPtr", 1, strAbc), Val("stringPtr", 0, <<>>),
     Val("nil", 0, <<>>), Val("bool", 1, <<>>), Val("bool", 0, <<>>),
     Val("string", 0, strA), Val("other", 0, strList)}

ValueRowInputs == {<<v>> : v \in Values} \cup {<<Str(strAbc), v>> : v \in Values}

NextRow ==
    \/ \E digits \in {1, 3}, cols \in {<<0>>, <<1>>} : Precision(digits, cols)
    \/ \E values \in Upto(MaxRows, ValueRowInputs) : Row(values)

SpecRow == Init /\ [][NextRow]_vars

\* C6: Row never fails: whatever the values, a call of Row ends without a
\* panic and with exactly one more row stored.
C6_RowNeverFails ==
    [][lastOp'.op = "Row" => (panicked' = "" /\ Len(rows') = Len(rows) + 1)]_vars

====
